---- MODULE Spec2Model ----
(***************************************************************************)
(* A model of the crypto-auto-trader agent pipeline: PortfolioEngine,      *)
(* RiskEngine, StrategyEngine, the three agents of agent_engine.py and     *)
(* ExecutionEngine.execute_cycle.                                          *)
(*                                                                         *)
(* Python floats are modelled as exact rationals [n, d] in lowest terms    *)
(* (d > 0): every sum, product, quotient and comparison of the code is     *)
(* computed, without the rounding of IEEE doubles.                         *)
(***************************************************************************)
EXTENDS Integers, Sequences, FiniteSets, TLC

(***************************************************************************)
(* Rational arithmetic (the float operations of the source).               *)
(***************************************************************************)
RECURSIVE GCD(_, _)
GCD(a, b) == IF b = 0 THEN a ELSE GCD(b, a % b)

Abs(x) == IF x < 0 THEN -x ELSE x

\* the rational n/d in lowest terms, the sign carried by the numerator
Num(n, d) ==
    LET g == GCD(Abs(n), Abs(d))
        s == IF d < 0 THEN -1 ELSE 1
    IN  [n |-> (s * n) \div g, d |-> (s * d) \div g]

Whole(k) == [n |-> k, d |-> 1]

Zero == Whole(0)

One == Whole(1)

RAdd(a, b) ==
    LET g == GCD(a.d, b.d)
    IN  Num(a.n * (b.d \div g) + b.n * (a.d \div g), (a.d \div g) * b.d)

RNeg(a) == [n |-> -a.n, d |-> a.d]

RSub(a, b) == RAdd(a, RNeg(b))

RMul(a, b) ==
    LET g1 == GCD(Abs(a.n), b.d)
        g2 == GCD(Abs(b.n), a.d)
    IN  Num((a.n \div g1) * (b.n \div g2), (a.d \div g2) * (b.d \div g1))

\* a / b for b # 0 (the callers guard the division as the source does)
RDiv(a, b) == RMul(a, Num(b.d, b.n))

RLt(a, b) ==
    LET g == GCD(a.d, b.d)
    IN  a.n * (b.d \div g) < b.n * (a.d \div g)

RLe(a, b) == ~RLt(b, a)

RGt(a, b) == RLt(b, a)

RGe(a, b) == ~RLt(a, b)

(***************************************************************************)
(* Bounds and inputs.                                                      *)
(***************************************************************************)
\* entries of the trade log, and invocations in flight, in one run of
\* overlapping cycles
MaxOverlapTrades == 5

\* direct calls of the ledger in one run
MaxCalls == 3

\* entries of the trade log in one run of cycles over every symbol
MaxTrades == 4

\* entries of the trade log in one run of cycles over one symbol
MaxDeepTrades == 7

\* direct update_memory calls (of the three agents together) in one run
MaxMemory == 4

Symbols == {"BTCUSDT", "ETHUSDT"}

\* PortfolioEngine(initial_balance): app.py constructs it with 10000.0
InitialBalances == {Zero, Whole(10000)}

\* amounts and prices of the direct add_position / remove_position calls
LedgerAmounts == {Zero, One, Whole(2)}

LedgerPrices == {Whole(100), Whole(200)}

\* the windows the model constructs StrategyEngine with
InitShortWindow == 1

InitLongWindow == 2

\* the longest price history a cycle is given
MaxHist == 5

\* the closes of a history: a step up is a return of 1.25 %, a step down of
\* -1.23 %, over the scout's momentum threshold and under its volatility
\* thresholds
HistCloses == {400, 405}

Histories == UNION {[1..k -> HistCloses] : k \in 0..MaxHist}

\* the windows a StrategyEngine of the model can hold
Strategies ==
    {[short_window |-> s, long_window |-> l] :
        s \in 1..InitLongWindow, l \in 2..(InitLongWindow + 1)}

(***************************************************************************)
(* PortfolioEngine (portfolio_engine.py).  A portfolio is                  *)
(* [cash_balance, positions]; positions maps the symbols held to           *)
(* [amount, average_entry_price].                                          *)
(***************************************************************************)
\* 1e-8, as the comparison x < 1e-8 of remove_position
LtDust(x) == x.n <= 0 \/ (x.n < 22 /\ x.n * 100000000 < x.d)

\* x > 1e-8
GtDust(x) == x.n > 0 /\ (x.n >= 22 \/ x.n * 100000000 > x.d)

NoPositions == [t \in {} |-> Zero]

NewPortfolio(initial_balance) ==
    [cash_balance |-> initial_balance, positions |-> NoPositions]

Without(f, k) == [t \in (DOMAIN f) \ {k} |-> f[t]]

Put(f, k, v) == [t \in (DOMAIN f) \cup {k} |-> IF t = k THEN v ELSE f[t]]

RECURSIVE SumOver(_, _, _)
\* sum of term[s] over the symbols of set S
SumOver(S, term, acc) ==
    IF S = {} THEN acc
    ELSE LET s == CHOOSE t \in S : TRUE
         IN  SumOver(S \ {s}, term, RAdd(acc, term[s]))

\* current_prices: a function from the symbols priced to their prices
get_portfolio_value(pf, current_prices) ==
    LET priced == (DOMAIN pf.positions) \cap (DOMAIN current_prices)
        value == [s \in priced |-> RMul(pf.positions[s].amount, current_prices[s])]
    IN  SumOver(priced, value, pf.cash_balance)

\* faulty variant of add_position: no check of the funds
add_position_unchecked(pf, symbol, amount, price) ==
    [ret |-> "True",
     pf |-> [cash_balance |-> RSub(pf.cash_balance, RMul(amount, price)),
             positions |-> Put(pf.positions, symbol,
                               [amount |-> amount, average_entry_price |-> price])]]

\* faulty variant of add_position: the plain mean of the old and the new price
add_position_simple_mean(pf, symbol, amount, price) ==
    LET cost == RMul(amount, price)
        debited == [pf EXCEPT !.cash_balance = RSub(pf.cash_balance, cost)]
    IN  IF RGt(cost, pf.cash_balance)
        THEN [ret |-> "False", pf |-> pf]
        ELSE IF symbol \in DOMAIN pf.positions
        THEN [ret |-> "True",
              pf |-> [debited EXCEPT !.positions[symbol] =
                 [amount |-> RAdd(@.amount, amount),
                  average_entry_price |->
                     RDiv(RAdd(@.average_entry_price, price), Whole(2))]]]
        ELSE [ret |-> "True",
              pf |-> [debited EXCEPT !.positions =
                 Put(pf.positions, symbol,
                     [amount |-> amount, average_entry_price |-> price])]]

\* result: ret is "True", "False" or the exception raised; pf the ledger after
add_position(pf, symbol, amount, price) ==
    LET cost == RMul(amount, price)
        debited == [pf EXCEPT !.cash_balance = RSub(pf.cash_balance, cost)]
    IN  IF RGt(cost, pf.cash_balance)
        THEN [ret |-> "False", pf |-> pf]
        ELSE IF symbol \in DOMAIN pf.positions
        THEN LET old_amount == pf.positions[symbol].amount
                 old_price == pf.positions[symbol].average_entry_price
                 new_amount == RAdd(old_amount, amount)
             IN  IF new_amount = Zero
                 THEN [ret |-> "ZeroDivisionError", pf |-> debited]
                 ELSE [ret |-> "True",
                       pf |-> [debited EXCEPT !.positions[symbol] =
                          [amount |-> new_amount,
                           average_entry_price |->
                              RDiv(RAdd(RMul(old_amount, old_price),
                                        RMul(amount, price)), new_amount)]]]
        ELSE [ret |-> "True",
              pf |-> [debited EXCEPT !.positions =
                 Put(pf.positions, symbol,
                     [amount |-> amount, average_entry_price |-> price])]]

\* faulty variant of remove_position: the sale is credited before the checks
remove_position_credit_first(pf, symbol, amount, price) ==
    LET credited == [pf EXCEPT !.cash_balance = RAdd(@, RMul(amount, price))]
    IN  IF symbol \notin DOMAIN pf.positions
           \/ RLt(pf.positions[symbol].amount, amount)
        THEN [ret |-> "False", pf |-> credited]
        ELSE [ret |-> "True",
              pf |-> [credited EXCEPT !.positions[symbol].amount = RSub(@, amount)]]

\* faulty variant of remove_position: a position sold out keeps its entry
remove_position_keep_entry(pf, symbol, amount, price) ==
    IF symbol \notin DOMAIN pf.positions
       \/ RLt(pf.positions[symbol].amount, amount)
    THEN [ret |-> "False", pf |-> pf]
    ELSE [ret |-> "True",
          pf |-> [pf EXCEPT !.cash_balance = RAdd(@, RMul(amount, price)),
                            !.positions[symbol].amount = RSub(@, amount)]]

remove_position(pf, symbol, amount, price) ==
    IF symbol \notin DOMAIN pf.positions
       \/ RLt(pf.positions[symbol].amount, amount)
    THEN [ret |-> "False", pf |-> pf]
    ELSE LET sale_value == RMul(amount, price)
             left == RSub(pf.positions[symbol].amount, amount)
             credited == [pf EXCEPT !.cash_balance = RAdd(pf.cash_balance, sale_value)]
         IN  [ret |-> "True",
              pf |-> IF LtDust(left)
                     THEN [credited EXCEPT !.positions = Without(pf.positions, symbol)]
                     ELSE [credited EXCEPT !.positions[symbol].amount = left]]

(***************************************************************************)
(* RiskEngine (risk_engine.py): [max_position_pct, max_exposure_pct].      *)
(***************************************************************************)
NewRisk(max_position_pct, max_exposure_pct) ==
    [max_position_pct |-> max_position_pct, max_exposure_pct |-> max_exposure_pct]

\* faulty variant of validate_position_size: the ceiling leaves room for the
\* largest size modifier
validate_position_size_with_headroom(risk_engine, current_portfolio_value, proposed_trade_value) ==
    RLe(proposed_trade_value,
        RMul(RMul(current_portfolio_value, risk_engine.max_position_pct), Num(5, 4)))

\* faulty variant of validate_position_size: any size passes
validate_position_size_unlimited(risk_engine, current_portfolio_value, proposed_trade_value) ==
    TRUE

validate_position_size(risk_engine, current_portfolio_value, proposed_trade_value) ==
    LET max_allowed_value == RMul(current_portfolio_value, risk_engine.max_position_pct)
    IN  RLe(proposed_trade_value, max_allowed_value)

\* faulty variant of validate_exposure: the open positions are left out
validate_exposure_of_trade_alone(risk_engine, current_portfolio_value, total_open_positions_value, proposed_trade_value) ==
    RLe(proposed_trade_value,
        RMul(current_portfolio_value, risk_engine.max_exposure_pct))

\* faulty variant of validate_exposure: any exposure passes
validate_exposure_unlimited(risk_engine, current_portfolio_value, total_open_positions_value, proposed_trade_value) ==
    TRUE

validate_exposure(risk_engine, current_portfolio_value, total_open_positions_value, proposed_trade_value) ==
    LET max_allowed_exposure == RMul(current_portfolio_value, risk_engine.max_exposure_pct)
    IN  RLe(RAdd(total_open_positions_value, proposed_trade_value),
            max_allowed_exposure)

\* current_price > 0 in every call of the model, as app.py guards it
calculate_position_size(risk_engine, current_portfolio_value, current_price) ==
    LET trade_value == RMul(current_portfolio_value, risk_engine.max_position_pct)
    IN  RDiv(trade_value, current_price)

\* 0 < x <= 1.0
ValidPct(x) == RGt(x, Zero) /\ RLe(x, One)

\* faulty variant of update_risk_parameters: both are applied, or neither
update_risk_parameters_together(risk_engine, max_position_pct, max_exposure_pct) ==
    IF ValidPct(max_position_pct) /\ ValidPct(max_exposure_pct)
    THEN [max_position_pct |-> max_position_pct,
          max_exposure_pct |-> max_exposure_pct]
    ELSE risk_engine

\* the RiskEngine after update_risk_parameters
update_risk_parameters(risk_engine, max_position_pct, max_exposure_pct) ==
    [max_position_pct |-> IF ValidPct(max_position_pct) THEN max_position_pct
                          ELSE risk_engine.max_position_pct,
     max_exposure_pct |-> IF ValidPct(max_exposure_pct) THEN max_exposure_pct
                          ELSE risk_engine.max_exposure_pct]

(***************************************************************************)
(* BaseAgent (agent_engine.py): the memory every agent owns.               *)
(***************************************************************************)
NewMemory ==
    [total_trades |-> 0, wins |-> 0, losses |-> 0, current_streak |-> 0,
     adaptations |-> <<>>]

NoDecision == [signal |-> "None", amount |-> Zero, reason |-> "None"]

\* faulty variant of update_counters: a streak is never reset on a change of
\* direction
update_counters_no_reset(memory, realized_pnl) ==
    LET counted == [memory EXCEPT !.total_trades = @ + 1]
    IN  IF RGt(realized_pnl, Zero)
        THEN [counted EXCEPT !.wins = @ + 1, !.current_streak = @ + 1]
        ELSE IF RLt(realized_pnl, Zero)
        THEN [counted EXCEPT !.losses = @ + 1, !.current_streak = @ - 1]
        ELSE counted

\* BaseAgent.update_memory before its call of _adapt
update_counters(memory, realized_pnl) ==
    LET counted == [memory EXCEPT !.total_trades = @ + 1]
    IN  IF RGt(realized_pnl, Zero)
        THEN [counted EXCEPT !.wins = @ + 1,
                             !.current_streak = IF @ > 0 THEN @ + 1 ELSE 1]
        ELSE IF RLt(realized_pnl, Zero)
        THEN [counted EXCEPT !.losses = @ + 1,
                             !.current_streak = IF @ < 0 THEN @ - 1 ELSE -1]
        ELSE counted

(***************************************************************************)
(* RiskGuardianAgent.                                                      *)
(***************************************************************************)
CooldownCycles == 5

NewGuardian ==
    [memory |-> NewMemory, cooldown_cycles_remaining |-> 0, size_modifier |-> One,
     status |-> "Idle", last_decision |-> NoDecision]

\* faulty variant of guardian_adapt: a loss streak restarts a running cooldown
guardian_adapt_restart(g) ==
    LET streak == g.memory.current_streak
    IN  IF streak <= -3
        THEN [g EXCEPT !.cooldown_cycles_remaining = CooldownCycles,
                       !.size_modifier = Num(1, 2),
                       !.memory.adaptations =
                          <<"Active Cooldown", "Reduced Sizing (-50%)">>]
        ELSE IF streak <= -1
        THEN [g EXCEPT !.size_modifier = Num(3, 4),
                       !.memory.adaptations = <<"Cautious Sizing (-25%)">>]
        ELSE IF streak >= 3
        THEN [g EXCEPT !.size_modifier = Num(5, 4),
                       !.memory.adaptations = <<"Aggressive Sizing (+25%)">>]
        ELSE [g EXCEPT !.size_modifier = One, !.memory.adaptations = <<>>]

\* faulty variant of guardian_adapt: the sizing is left as it was once a loss
\* streak ends
guardian_adapt_stale(g) ==
    LET streak == g.memory.current_streak
    IN  IF streak <= -3
        THEN [g EXCEPT
                !.cooldown_cycles_remaining = IF @ = 0 THEN CooldownCycles ELSE @,
                !.size_modifier = Num(1, 2),
                !.memory.adaptations = <<"Active Cooldown", "Reduced Sizing (-50%)">>]
        ELSE IF streak <= -1
        THEN [g EXCEPT !.size_modifier = Num(3, 4),
                       !.memory.adaptations = <<"Cautious Sizing (-25%)">>]
        ELSE IF streak >= 3
        THEN [g EXCEPT !.size_modifier = Num(5, 4),
                       !.memory.adaptations = <<"Aggressive Sizing (+25%)">>]
        ELSE [g EXCEPT !.memory.adaptations = <<>>]

\* faulty variant of guardian_adapt: the labels are added to the ones in place
guardian_adapt_accumulating(g) ==
    LET streak == g.memory.current_streak
    IN  IF streak <= -3
        THEN [g EXCEPT
                !.cooldown_cycles_remaining = IF @ = 0 THEN CooldownCycles ELSE @,
                !.size_modifier = Num(1, 2),
                !.memory.adaptations =
                   @ \o <<"Active Cooldown", "Reduced Sizing (-50%)">>]
        ELSE IF streak <= -1
        THEN [g EXCEPT !.size_modifier = Num(3, 4),
                       !.memory.adaptations = @ \o <<"Cautious Sizing (-25%)">>]
        ELSE IF streak >= 3
        THEN [g EXCEPT !.size_modifier = Num(5, 4),
                       !.memory.adaptations = @ \o <<"Aggressive Sizing (+25%)">>]
        ELSE [g EXCEPT !.size_modifier = One]

guardian_adapt(g) ==
    LET streak == g.memory.current_streak
    IN  IF streak <= -3
        THEN [g EXCEPT
                !.cooldown_cycles_remaining = IF @ = 0 THEN CooldownCycles ELSE @,
                !.size_modifier = Num(1, 2),
                !.memory.adaptations = <<"Active Cooldown", "Reduced Sizing (-50%)">>]
        ELSE IF streak <= -1
        THEN [g EXCEPT !.size_modifier = Num(3, 4),
                       !.memory.adaptations = <<"Cautious Sizing (-25%)">>]
        ELSE IF streak >= 3
        THEN [g EXCEPT !.size_modifier = Num(5, 4),
                       !.memory.adaptations = <<"Aggressive Sizing (+25%)">>]
        ELSE [g EXCEPT !.size_modifier = One, !.memory.adaptations = <<>>]

guardian_update_memory(g, realized_pnl) ==
    guardian_adapt([g EXCEPT !.memory = update_counters(@, realized_pnl)])

\* faulty variant of evaluate: a cooldown counts down but blocks nothing
evaluate_unblocked(g, risk_engine, signal, current_portfolio_value, total_open_value, current_price) ==
    LET ticked == [g EXCEPT !.cooldown_cycles_remaining = IF @ > 0 THEN @ - 1 ELSE 0]
        proposed_amount ==
            RMul(calculate_position_size(risk_engine, current_portfolio_value,
                                         current_price), g.size_modifier)
    IN  IF signal = "HOLD"
        THEN [ticked EXCEPT !.status = "No Action Required",
                            !.last_decision = [signal |-> "HOLD", amount |-> Zero,
                                               reason |-> "No trade proposed."]]
        ELSE IF signal = "SELL"
        THEN [ticked EXCEPT !.status = "Approved SELL",
                            !.last_decision = [signal |-> "SELL", amount |-> Whole(-1),
                                               reason |-> "Sell approved by risk logic."]]
        ELSE [ticked EXCEPT !.status = "Approved BUY",
                            !.last_decision = [signal |-> "BUY",
                                               amount |-> proposed_amount,
                                               reason |-> "Sizing approved"]]

\* the guardian after evaluate; its last_decision is the value returned
evaluate(g, risk_engine, signal, current_portfolio_value, total_open_value, current_price) ==
    IF g.cooldown_cycles_remaining > 0
    THEN LET ticked == [g EXCEPT !.cooldown_cycles_remaining = @ - 1]
             blocked == [signal |-> "HOLD", amount |-> Zero,
                         reason |-> "Blocked by active cooldown."]
         IN  IF ticked.cooldown_cycles_remaining > 0
             THEN [ticked EXCEPT !.status = "Cooldown Active",
                                 !.last_decision = blocked]
             ELSE [guardian_adapt(ticked) EXCEPT !.status = "Cooldown Finished",
                                                 !.last_decision = blocked]
    ELSE IF signal = "HOLD"
    THEN [g EXCEPT !.status = "No Action Required",
                   !.last_decision = [signal |-> "HOLD", amount |-> Zero,
                                      reason |-> "No trade proposed."]]
    ELSE IF signal = "SELL"
    THEN [g EXCEPT !.status = "Approved SELL",
                   !.last_decision = [signal |-> "SELL", amount |-> Whole(-1),
                                      reason |-> "Sell approved by risk logic."]]
    ELSE LET base_calc_amount ==
                 calculate_position_size(risk_engine, current_portfolio_value, current_price)
             proposed_amount == RMul(base_calc_amount, g.size_modifier)
             proposed_value == RMul(proposed_amount, current_price)
             valid_size ==
                 validate_position_size(risk_engine, current_portfolio_value, proposed_value)
             valid_exposure ==
                 validate_exposure(risk_engine, current_portfolio_value, total_open_value,
                                   proposed_value)
         IN  IF valid_size /\ valid_exposure
             THEN [g EXCEPT !.status = "Approved BUY",
                            !.last_decision = [signal |-> "BUY",
                                               amount |-> proposed_amount,
                                               reason |-> "Sizing approved"]]
             ELSE [g EXCEPT !.status = "Rejected BUY",
                            !.last_decision =
                               [signal |-> "HOLD", amount |-> Zero,
                                reason |-> IF ~valid_size
                                           THEN "Risk Rejected: Max Position Size limit"
                                           ELSE "Risk Rejected: Max Exposure limit"]]

(***************************************************************************)
(* StrategyEngine (strategy_engine.py): [short_window, long_window].       *)
(* A price history is the sequence of the closes, oldest first.            *)
(***************************************************************************)
NewStrategy(short_window, long_window) ==
    [short_window |-> short_window, long_window |-> long_window]

RECURSIVE SumCloses(_, _, _)
\* closes[from] + ... + closes[to]
SumCloses(closes, from, to) ==
    IF from > to THEN 0 ELSE closes[from] + SumCloses(closes, from + 1, to)

\* rolling(window).mean() at row i (1-based); NaN on the first window-1 rows
NaN == [n |-> 0, d |-> 0]

Sma(closes, window, i) ==
    IF i < window THEN NaN
    ELSE Num(SumCloses(closes, i - window + 1, i), window)

\* faulty variant of generate_signal: a crossover needs the short mean
\* strictly on the other side at the second-to-last sample
generate_signal_strict(strategy_engine, closes) ==
    LET len == Len(closes)
        short_latest == Sma(closes, strategy_engine.short_window, len)
        short_previous == Sma(closes, strategy_engine.short_window, len - 1)
        long_latest == Sma(closes, strategy_engine.long_window, len)
        long_previous == Sma(closes, strategy_engine.long_window, len - 1)
    IN  IF len = 0 \/ len < strategy_engine.long_window THEN "HOLD"
        ELSE IF len < 2 THEN "HOLD"
        ELSE IF long_latest = NaN \/ long_previous = NaN THEN "HOLD"
        ELSE IF RLt(short_previous, long_previous) /\ RGt(short_latest, long_latest)
        THEN "BUY"
        ELSE IF RGt(short_previous, long_previous) /\ RLt(short_latest, long_latest)
        THEN "SELL"
        ELSE "HOLD"

generate_signal(strategy_engine, closes) ==
    LET len == Len(closes)
        short_latest == Sma(closes, strategy_engine.short_window, len)
        short_previous == Sma(closes, strategy_engine.short_window, len - 1)
        long_latest == Sma(closes, strategy_engine.long_window, len)
        long_previous == Sma(closes, strategy_engine.long_window, len - 1)
    IN  IF len = 0 \/ len < strategy_engine.long_window THEN "HOLD"
        ELSE IF len < 2 THEN "HOLD"
        ELSE IF long_latest = NaN \/ long_previous = NaN THEN "HOLD"
        ELSE IF RLe(short_previous, long_previous) /\ RGt(short_latest, long_latest)
        THEN "BUY"
        ELSE IF RGe(short_previous, long_previous) /\ RLt(short_latest, long_latest)
        THEN "SELL"
        ELSE "HOLD"

\* faulty variant of update_strategy_parameters: each window on its own
update_strategy_parameters_each(strategy_engine, short_window, long_window) ==
    [short_window |-> IF short_window > 0 THEN short_window
                      ELSE strategy_engine.short_window,
     long_window |-> IF long_window > 1 THEN long_window
                     ELSE strategy_engine.long_window]

\* the StrategyEngine after update_strategy_parameters
update_strategy_parameters(strategy_engine, short_window, long_window) ==
    IF 0 < short_window /\ short_window < long_window
    THEN [short_window |-> short_window, long_window |-> long_window]
    ELSE strategy_engine

\* generate_signal tabulated over the model's windows and histories
\* (f @@ g builds the function's graph once)
SignalTable ==
    [st \in Strategies |->
        [closes \in Histories |-> generate_signal(st, closes)] @@ <<>>] @@ <<>>

(***************************************************************************)
(* ScoutAgent.                                                             *)
(***************************************************************************)
NoProposal == [signal |-> "None", reason |-> "None"]

DefaultVolatility == Num(5, 100)

TightVolatility == Num(2, 100)

NewScout ==
    [memory |-> NewMemory, volatility_threshold |-> DefaultVolatility,
     status |-> "Idle", last_decision |-> NoProposal]

\* faulty variant of scout_adapt: a tightened filter is never reset
scout_adapt_never_reset(s) ==
    IF s.memory.current_streak <= -3
    THEN [s EXCEPT !.volatility_threshold = TightVolatility,
                   !.memory.adaptations =
                      <<"Tightened Volatility Filter (Loss Streak)">>]
    ELSE [s EXCEPT !.memory.adaptations = <<>>]

scout_adapt(s) ==
    IF s.memory.current_streak <= -3
    THEN [s EXCEPT !.volatility_threshold = TightVolatility,
                   !.memory.adaptations =
                      <<"Tightened Volatility Filter (Loss Streak)">>]
    ELSE [s EXCEPT !.volatility_threshold = DefaultVolatility,
                   !.memory.adaptations = <<>>]

\* faulty variant of scout_update_memory: the outcome is not recorded
scout_update_memory_skipped(s, realized_pnl) == s

scout_update_memory(s, realized_pnl) ==
    scout_adapt([s EXCEPT !.memory = update_counters(@, realized_pnl)])

\* pct_change().dropna(): the return of row i + 1 over row i
Returns(closes) ==
    [i \in 1..(Len(closes) - 1) |-> Num(closes[i + 1] - closes[i], closes[i])]

RECURSIVE SumSeq(_, _)
SumSeq(q, i) == IF i = 0 THEN Zero ELSE RAdd(q[i], SumSeq(q, i - 1))

\* (returns.std() * sqrt(len(returns)))^2, std with ddof = 1:
\* m * (sum r^2 - (sum r)^2 / m) / (m - 1); the callers have m >= 4
VolatilitySquared(closes) ==
    LET r == Returns(closes)
        m == Len(r)
        squares == [i \in 1..m |-> RMul(r[i], r[i])]
        total == SumSeq(r, m)
    IN  RDiv(RSub(RMul(Whole(m), SumSeq(squares, m)), RMul(total, total)),
             Whole(m - 1))

\* scan's [status, last_decision] for a threshold and a history.  The
\* volatility (a square root) is compared by its square, both sides >= 0.
scan_result(volatility_threshold, closes) ==
    IF Len(closes) < 5
    THEN [status |-> "Waiting for data",
          last_decision |-> [signal |-> "HOLD", reason |-> "Insufficient data"]]
    ELSE LET len == Len(closes)
             momentum == Num(closes[len] - closes[len - 4], closes[len - 4])
             high == RGt(VolatilitySquared(closes),
                         RMul(volatility_threshold, volatility_threshold))
         IN  [status |-> "Scanned",
              last_decision |->
                 IF high
                 THEN [signal |-> "HOLD", reason |-> "Rejected: High Volatility"]
                 ELSE IF RGt(momentum, Num(1, 100))
                 THEN [signal |-> "BUY", reason |-> "Strong Positive Momentum"]
                 ELSE IF RLt(momentum, Num(-1, 100))
                 THEN [signal |-> "SELL", reason |-> "Strong Negative Momentum"]
                 ELSE [signal |-> "HOLD", reason |-> "Momentum"]]

\* scan_result tabulated over the two thresholds and the model's histories
ScanTable ==
    [thr \in {DefaultVolatility, TightVolatility} |->
        [closes \in Histories |-> scan_result(thr, closes)] @@ <<>>] @@ <<>>

\* the scout after scan; its last_decision is the value returned
scan(s, closes) ==
    LET result == ScanTable[s.volatility_threshold][closes]
    IN  [s EXCEPT !.status = result.status, !.last_decision = result.last_decision]

(***************************************************************************)
(* AnalystAgent.                                                           *)
(***************************************************************************)
NewAnalyst ==
    [memory |-> NewMemory, requires_scout_alignment |-> FALSE,
     status |-> "Idle", last_decision |-> NoProposal]

\* faulty variant of analyst_adapt: the alignment is a function of the streak
analyst_adapt_not_sticky(a) ==
    IF a.memory.current_streak <= -2
    THEN [a EXCEPT !.requires_scout_alignment = TRUE,
                   !.memory.adaptations =
                      <<"Requiring Scout Alignment (Loss Streak)">>]
    ELSE IF a.memory.current_streak >= 2
    THEN [a EXCEPT !.requires_scout_alignment = FALSE,
                   !.memory.adaptations = <<"Relaxed Alignment (Win Streak)">>]
    ELSE [a EXCEPT !.requires_scout_alignment = FALSE,
                   !.memory.adaptations = <<>>]

analyst_adapt(a) ==
    IF a.memory.current_streak <= -2
    THEN [a EXCEPT !.requires_scout_alignment = TRUE,
                   !.memory.adaptations =
                      <<"Requiring Scout Alignment (Loss Streak)">>]
    ELSE IF a.memory.current_streak >= 2
    THEN [a EXCEPT !.requires_scout_alignment = FALSE,
                   !.memory.adaptations = <<"Relaxed Alignment (Win Streak)">>]
    ELSE [a EXCEPT !.memory.adaptations = <<>>]

\* faulty variant of analyst_update_memory: the outcome is not recorded
analyst_update_memory_skipped(a, realized_pnl) == a

analyst_update_memory(a, realized_pnl) ==
    analyst_adapt([a EXCEPT !.memory = update_counters(@, realized_pnl)])

\* faulty variant of analyze: a Scout signal passes when the strategy holds
analyze_follows_scout(a, strategy_engine, scout_signal, closes) ==
    LET sma_signal == generate_signal(strategy_engine, closes)
        decision ==
            IF sma_signal # "HOLD"
            THEN IF a.requires_scout_alignment /\ sma_signal # scout_signal
                 THEN [signal |-> "HOLD", reason |-> "Rejected: Scout divergence"]
                 ELSE [signal |-> sma_signal, reason |-> "Base Strategy Executing"]
            ELSE [signal |-> scout_signal, reason |-> "SMA Signal: HOLD"]
    IN  [a EXCEPT !.status = "Analyzed", !.last_decision = decision]

\* the analyst after analyze; its last_decision is the value returned
analyze(a, strategy_engine, scout_signal, closes) ==
    LET sma_signal == SignalTable[strategy_engine][closes]
        decision ==
            IF sma_signal # "HOLD"
            THEN IF a.requires_scout_alignment
                 THEN IF sma_signal = scout_signal
                      THEN [signal |-> sma_signal,
                            reason |-> "Confirmed by Scout Alignment"]
                      ELSE [signal |-> "HOLD", reason |-> "Rejected: Scout divergence"]
                 ELSE [signal |-> sma_signal, reason |-> "Base Strategy Executing"]
            ELSE [signal |-> "HOLD", reason |-> "SMA Signal: HOLD"]
    IN  [a EXCEPT !.status = "Analyzed", !.last_decision = decision]

(***************************************************************************)
(* ExecutionEngine (execution_engine.py) and the state of the program.     *)
(***************************************************************************)
Signals == {"BUY", "SELL", "HOLD"}

\* current_price of a cycle
CyclePrices == {Whole(100), Whole(200)}

VARIABLES
    portfolio,       \* PortfolioEngine: [cash_balance, positions]
    risk,            \* RiskEngine: [max_position_pct, max_exposure_pct]
    strategy,        \* StrategyEngine: [short_window, long_window]
    scout,           \* ScoutAgent
    analyst,         \* AnalystAgent
    guardian,        \* RiskGuardianAgent
    trade_history,   \* ExecutionEngine.trade_history
    calls,           \* history: the last direct calls (two of the ledger's,
                     \* one of an agent's), the latest last
    ncalls,          \* history: the number of direct ledger calls made
    evals,           \* history: evaluate calls since update_memory started a
                     \* cooldown with no update_memory since; -1 when none
    in_flight,       \* the execute_cycle invocations past the guardian's
                     \* evaluate and before the execution logic: for each its
                     \* locals symbol, current_price and guardian_decision
    overlapped       \* history: two invocations have been in flight at once

vars == <<portfolio, risk, strategy, scout, analyst, guardian, trade_history,
          calls, ncalls, evals, in_flight, overlapped>>

engine == <<portfolio, risk, strategy, scout, analyst, guardian, trade_history>>

Init ==
    /\ portfolio \in {NewPortfolio(b) : b \in InitialBalances}
    /\ risk = NewRisk(Num(2, 10), Num(8, 10))
    /\ strategy = NewStrategy(InitShortWindow, InitLongWindow)
    /\ scout = NewScout
    /\ analyst = NewAnalyst
    /\ guardian = NewGuardian
    /\ trade_history = <<>>
    /\ calls = <<>>
    /\ ncalls = 0
    /\ evals = -1
    /\ in_flight = <<>>
    /\ overlapped = FALSE

\* _log_trade: the record appended (timestamp and note left out)
LogEntry(symbol, action, amount, price) ==
    [symbol |-> symbol, action |-> action, amount |-> amount, price |-> price,
     value |-> RMul(amount, price)]

\* the history counter after an evaluate call
EvalsAfterEvaluate(e) == IF e < 0 THEN e ELSE IF e >= 7 THEN 7 ELSE e + 1

\* the history counter after update_memory took the guardian from g to g2
EvalsAfterUpdate(g, g2) ==
    IF g.cooldown_cycles_remaining = 0 /\ g2.cooldown_cycles_remaining = CooldownCycles
    THEN 0 ELSE -1

\* the sum line 37-40 of execute_cycle: a position of the cycle's symbol at
\* current_price, any other at its average_entry_price
TotalOpenValue(pf, symbol, current_price) ==
    LET held == DOMAIN pf.positions
        value == [s \in held |->
                    RMul(pf.positions[s].amount,
                         IF s = symbol THEN current_price
                         ELSE pf.positions[s].average_entry_price)]
    IN  SumOver(held, value, Zero)

\* faulty variant of Execute: a SELL decided with no position held is logged
Execute_logs_dropped_sell(symbol, current_price, guardian_decision, scout1, analyst1, guardian1) ==
    LET final_action == guardian_decision.signal
        bought == add_position(portfolio, symbol, guardian_decision.amount,
                               current_price)
        position == portfolio.positions[symbol]
        sold == remove_position(portfolio, symbol, position.amount, current_price)
        realized_pnl == RMul(RSub(current_price, position.average_entry_price),
                             position.amount)
        selling == final_action = "SELL" /\ symbol \in DOMAIN portfolio.positions
                                         /\ RGt(position.amount, Zero)
    IN  /\ portfolio' = IF final_action = "BUY" THEN bought.pf
                        ELSE IF selling THEN sold.pf ELSE portfolio
        /\ trade_history' =
              IF final_action = "BUY"
              THEN IF bought.ret = "ZeroDivisionError" THEN trade_history
                   ELSE Append(trade_history,
                               LogEntry(symbol,
                                        IF bought.ret = "True" THEN "BUY"
                                        ELSE "REJECTED_FUNDS",
                                        guardian_decision.amount, current_price))
              ELSE IF selling
              THEN Append(trade_history,
                          LogEntry(symbol, "SELL", position.amount, current_price))
              ELSE IF final_action = "SELL"
              THEN Append(trade_history, LogEntry(symbol, "SELL", Zero, current_price))
              ELSE trade_history
        /\ scout' = IF selling THEN scout_update_memory(scout1, realized_pnl)
                    ELSE scout1
        /\ analyst' = IF selling THEN analyst_update_memory(analyst1, realized_pnl)
                      ELSE analyst1
        /\ guardian' = IF selling THEN guardian_update_memory(guardian1, realized_pnl)
                       ELSE guardian1

\* steps 4-5 of execute_cycle on the decision the guardian returned, the
\* agents being scout1, analyst1 and guardian1 when they start
Execute(symbol, current_price, guardian_decision, scout1, analyst1, guardian1) ==
    LET final_action == guardian_decision.signal
        proposed_amount == guardian_decision.amount
        bought == add_position(portfolio, symbol, proposed_amount, current_price)
        position == portfolio.positions[symbol]
        amount_to_sell == position.amount
        sold == remove_position(portfolio, symbol, amount_to_sell, current_price)
        realized_pnl == RMul(RSub(current_price, position.average_entry_price),
                             amount_to_sell)
        guardian2 == guardian_update_memory(guardian1, realized_pnl)
    IN  IF final_action = "BUY"
        THEN /\ portfolio' = bought.pf
             /\ trade_history' =
                   IF bought.ret = "True"
                   THEN Append(trade_history,
                               LogEntry(symbol, "BUY", proposed_amount, current_price))
                   ELSE IF bought.ret = "False"
                   THEN Append(trade_history,
                               LogEntry(symbol, "REJECTED_FUNDS", proposed_amount,
                                        current_price))
                   ELSE trade_history
             /\ scout' = scout1
             /\ analyst' = analyst1
             /\ guardian' = guardian1
        ELSE IF /\ final_action = "SELL"
                /\ symbol \in DOMAIN portfolio.positions
                /\ RGt(position.amount, Zero)
                /\ sold.ret = "True"
        THEN /\ portfolio' = sold.pf
             /\ scout' = scout_update_memory(scout1, realized_pnl)
             /\ analyst' = analyst_update_memory(analyst1, realized_pnl)
             /\ guardian' = guardian2
             /\ trade_history' =
                   Append(trade_history,
                          LogEntry(symbol, "SELL", amount_to_sell, current_price))
        ELSE /\ UNCHANGED <<portfolio, trade_history>>
             /\ scout' = scout1
             /\ analyst' = analyst1
             /\ guardian' = guardian1

\* steps 1-2 of execute_cycle: the scout and the analyst after scan and
\* analyze of one history
Decide(closes) ==
    LET scout1 == scan(scout, closes)
    IN  [scout |-> scout1,
         analyst |-> analyze(analyst, strategy, scout1.last_decision.signal, closes)]

\* execute_cycle(symbol, current_price, historical_data), for any
\* historical_data of Histories
ExecuteCycle(symbol, current_price) ==
    /\ UNCHANGED <<risk, strategy, calls, ncalls, in_flight, overlapped>>
    /\ \E decided \in {Decide(closes) : closes \in Histories} :
       \E portfolio_value \in
             {get_portfolio_value(portfolio, [s \in {symbol} |-> current_price])} :
       \E guardian1 \in
             {evaluate(guardian, risk, decided.analyst.last_decision.signal,
                       portfolio_value,
                       TotalOpenValue(portfolio, symbol, current_price), current_price)} :
          /\ Execute(symbol, current_price, guardian1.last_decision,
                     decided.scout, decided.analyst, guardian1)
          /\ evals' = IF guardian'.memory.total_trades = guardian.memory.total_trades
                      THEN EvalsAfterEvaluate(evals)
                      ELSE EvalsAfterUpdate(guardian1, guardian')

\* cycles over every symbol
Next ==
    /\ Len(trade_history) < MaxTrades
    /\ \E symbol \in Symbols, current_price \in CyclePrices :
          ExecuteCycle(symbol, current_price)

Spec == Init /\ [][Next]_vars

\* cycles over one symbol (app.py's default target_symbol), a longer run
NextDeep ==
    /\ Len(trade_history) < MaxDeepTrades
    /\ \E current_price \in CyclePrices : ExecuteCycle("BTCUSDT", current_price)

SpecDeep == Init /\ [][NextDeep]_vars

(***************************************************************************)
(* Direct calls of the ledger: add_position and remove_position called     *)
(* with any symbol, amount and price of the input sets.                    *)
(***************************************************************************)
\* the history after call c: the call before it, then c
Called(c) == IF calls = <<>> THEN <<c>> ELSE <<calls[Len(calls)], c>>

AddPosition(symbol, amount, price) ==
    /\ ncalls < MaxCalls
    /\ \E result \in {add_position(portfolio, symbol, amount, price)} :
          /\ portfolio' = result.pf
          /\ calls' = Called([op |-> "add_position", symbol |-> symbol,
                              amount |-> amount, price |-> price,
                              ret |-> result.ret, before |-> portfolio])
    /\ ncalls' = ncalls + 1
    /\ UNCHANGED <<risk, strategy, scout, analyst, guardian, trade_history, evals,
                   in_flight, overlapped>>

RemovePosition(symbol, amount, price) ==
    /\ ncalls < MaxCalls
    /\ \E result \in {remove_position(portfolio, symbol, amount, price)} :
          /\ portfolio' = result.pf
          /\ calls' = Called([op |-> "remove_position", symbol |-> symbol,
                              amount |-> amount, price |-> price,
                              ret |-> result.ret, before |-> portfolio])
    /\ ncalls' = ncalls + 1
    /\ UNCHANGED <<risk, strategy, scout, analyst, guardian, trade_history, evals,
                   in_flight, overlapped>>

NextLedger ==
    \E symbol \in Symbols, amount \in LedgerAmounts, price \in LedgerPrices :
        \/ AddPosition(symbol, amount, price)
        \/ RemovePosition(symbol, amount, price)

SpecLedger == Init /\ [][NextLedger]_vars

(***************************************************************************)
(* Direct calls of the agents: update_memory of each agent and the         *)
(* guardian's evaluate, with any argument of the input sets.               *)
(***************************************************************************)
\* realized_pnl of a direct update_memory call
Pnls == {Whole(-50), Zero, Whole(50)}

\* current_portfolio_value, total_open_value and current_price of a direct
\* evaluate call
EvalPortfolioValues == {Whole(10000)}

EvalOpenValues == {Zero, Whole(7000)}

EvalPrices == {Whole(100)}

Updates ==
    scout.memory.total_trades + analyst.memory.total_trades
        + guardian.memory.total_trades

ScoutUpdateMemory(realized_pnl) ==
    /\ Updates < MaxMemory
    /\ scout' = scout_update_memory(scout, realized_pnl)
    /\ calls' = <<[op |-> "update_memory", agent |-> "scout",
                        realized_pnl |-> realized_pnl, before |-> scout]>>
    /\ UNCHANGED <<portfolio, risk, strategy, analyst, guardian, trade_history,
                   ncalls, evals, in_flight, overlapped>>

AnalystUpdateMemory(realized_pnl) ==
    /\ Updates < MaxMemory
    /\ analyst' = analyst_update_memory(analyst, realized_pnl)
    /\ calls' = <<[op |-> "update_memory", agent |-> "analyst",
                        realized_pnl |-> realized_pnl, before |-> analyst]>>
    /\ UNCHANGED <<portfolio, risk, strategy, scout, guardian, trade_history,
                   ncalls, evals, in_flight, overlapped>>

GuardianUpdateMemory(realized_pnl) ==
    /\ Updates < MaxMemory
    /\ guardian' = guardian_update_memory(guardian, realized_pnl)
    /\ calls' = <<[op |-> "update_memory", agent |-> "guardian",
                        realized_pnl |-> realized_pnl, before |-> guardian]>>
    /\ evals' = EvalsAfterUpdate(guardian, guardian')
    /\ UNCHANGED <<portfolio, risk, strategy, scout, analyst, trade_history, ncalls,
                   in_flight, overlapped>>

GuardianEvaluate(signal, current_portfolio_value, total_open_value, current_price) ==
    /\ guardian' = evaluate(guardian, risk, signal, current_portfolio_value,
                            total_open_value, current_price)
    /\ calls' = <<[op |-> "evaluate", signal |-> signal,
                        current_portfolio_value |-> current_portfolio_value,
                        total_open_value |-> total_open_value,
                        current_price |-> current_price, before |-> guardian]>>
    /\ evals' = EvalsAfterEvaluate(evals)
    /\ UNCHANGED <<portfolio, risk, strategy, scout, analyst, trade_history, ncalls,
                   in_flight, overlapped>>

NextAgent ==
    \/ \E realized_pnl \in Pnls :
          \/ ScoutUpdateMemory(realized_pnl)
          \/ AnalystUpdateMemory(realized_pnl)
          \/ GuardianUpdateMemory(realized_pnl)
    \/ \E signal \in Signals, current_portfolio_value \in EvalPortfolioValues,
          total_open_value \in EvalOpenValues, current_price \in EvalPrices :
          GuardianEvaluate(signal, current_portfolio_value, total_open_value,
                           current_price)

\* the agents of an engine constructed as app.py does
InitAgent == Init /\ portfolio = NewPortfolio(Whole(10000))

SpecAgent == InitAgent /\ [][NextAgent]_vars

(***************************************************************************)
(* The ledger driven directly from its initial state, or by cycles only.   *)
(***************************************************************************)
NextLedgerOrCycle ==
    \/ /\ scout.status = "Idle"
       /\ NextLedger
    \/ /\ ncalls = 0
       /\ Next

SpecLedgerOrCycle == Init /\ [][NextLedgerOrCycle]_vars

(***************************************************************************)
(* Claims.                                                                 *)
(***************************************************************************)
Blocked ==
    [signal |-> "HOLD", amount |-> Zero, reason |-> "Blocked by active cooldown."]

\* C1: once update_memory's adaptation has set cooldown_cycles_remaining to
\* 5, the next five evaluate calls return HOLD with amount 0; after the
\* fifth the guardian is ACTIVE (cooldown_cycles_remaining = 0); the sixth
\* is evaluated normally (not blocked, a SELL proposal approved), no
\* update_memory in between.
C1_CooldownEndsAfterFiveCalls ==
    /\ evals \in 1..5 =>
          /\ guardian.last_decision.signal = "HOLD"
          /\ guardian.last_decision.amount = Zero
    /\ evals = 5 => guardian.cooldown_cycles_remaining = 0
    /\ evals = 6 =>
          /\ guardian.last_decision # Blocked
          /\ calls[1].signal = "SELL" => guardian.last_decision.signal = "SELL"

\* the latest direct call
LastCall == calls[Len(calls)]

\* the four counters of an agent's memory
Counters(agent) ==
    <<agent.memory.total_trades, agent.memory.wins, agent.memory.losses,
      agent.memory.current_streak>>

\* C2: a cycle that starts with cooldown_cycles_remaining > 0 ends with the
\* guardian's decision HOLD, amount 0, whatever the upstream signal, and
\* leaves cash_balance, positions, the trade log and the memory counters of
\* the three agents unchanged.
C2_CooldownCycleChangesNothing ==
    [][guardian.cooldown_cycles_remaining > 0 =>
          /\ guardian'.last_decision.signal = "HOLD"
          /\ guardian'.last_decision.amount = Zero
          /\ portfolio' = portfolio
          /\ trade_history' = trade_history
          /\ Counters(scout)' = Counters(scout)
          /\ Counters(analyst)' = Counters(analyst)
          /\ Counters(guardian)' = Counters(guardian)]_vars

\* a cycle blocked by the cooldown while the analyst proposed BUY
C2_BuyBlockedByCooldown ==
    /\ guardian.last_decision = Blocked
    /\ analyst.last_decision.signal = "BUY"

\* C3: an update_memory call on the guardian that leaves current_streak <= -3
\* sets cooldown_cycles_remaining to 5 when it was 0 and leaves it unchanged
\* when it was > 0.
C3_CooldownStartsOnlyFromActive ==
    (/\ calls # <<>>
     /\ LastCall.op = "update_memory"
     /\ LastCall.agent = "guardian"
     /\ guardian.memory.current_streak <= -3) =>
        guardian.cooldown_cycles_remaining =
            IF LastCall.before.cooldown_cycles_remaining = 0
            THEN 5
            ELSE LastCall.before.cooldown_cycles_remaining

\* a further loss settled while a cooldown is part-way through
C3_LossDuringCooldown ==
    /\ calls # <<>>
    /\ LastCall.op = "update_memory"
    /\ LastCall.agent = "guardian"
    /\ guardian.memory.current_streak <= -3
    /\ LastCall.before.cooldown_cycles_remaining \in 1..4
    /\ guardian.cooldown_cycles_remaining = LastCall.before.cooldown_cycles_remaining

\* the agent the latest update_memory call was made on, after the call
Updated ==
    IF LastCall.agent = "scout" THEN scout
    ELSE IF LastCall.agent = "analyst" THEN analyst
    ELSE guardian

\* C4: update_memory with realized_pnl > 0 makes current_streak s + 1 if the
\* prior streak s was > 0 and 1 otherwise; with realized_pnl < 0 it makes it
\* s - 1 if s was < 0 and -1 otherwise; in both cases total_trades and the
\* matching wins or losses counter grow by exactly one.
C4_StreakAndCounters ==
    (calls # <<>> /\ LastCall.op = "update_memory") =>
        LET old == LastCall.before.memory
            new == Updated.memory
            s == old.current_streak
        IN  /\ RGt(LastCall.realized_pnl, Zero) =>
                  /\ new.current_streak = (IF s > 0 THEN s + 1 ELSE 1)
                  /\ new.total_trades = old.total_trades + 1
                  /\ new.wins = old.wins + 1
                  /\ new.losses = old.losses
            /\ RLt(LastCall.realized_pnl, Zero) =>
                  /\ new.current_streak = (IF s < 0 THEN s - 1 ELSE -1)
                  /\ new.total_trades = old.total_trades + 1
                  /\ new.losses = old.losses + 1
                  /\ new.wins = old.wins

\* a win settled on an agent whose streak was a loss streak of two
C4_WinAfterTwoLosses ==
    /\ calls # <<>>
    /\ LastCall.op = "update_memory"
    /\ RGt(LastCall.realized_pnl, Zero)
    /\ LastCall.before.memory.current_streak = -2
    /\ Updated.memory.current_streak = 1

\* C5: in every reachable state, for each agent, total_trades >= 1 implies
\* current_streak # 0, whatever realized P&L the coordinator settled.
C5_StreakNonZeroAfterTrade ==
    \A memory \in {scout.memory, analyst.memory, guardian.memory} :
        memory.total_trades >= 1 => memory.current_streak # 0

\* C6: after any add_position and remove_position calls with amounts >= 0 and
\* prices > 0, the positions map has an entry for a symbol iff the amount
\* held is > 1e-8 (no entry: nothing held).
C6_EntryIffAboveDust ==
    \A symbol \in DOMAIN portfolio.positions :
        GtDust(portfolio.positions[symbol].amount)

\* C7: cash_balance >= 0 after any add_position / remove_position calls and
\* after any execute_cycle calls, from an initial_balance >= 0.
C7_CashNeverNegative == RGe(portfolio.cash_balance, Zero)

\* a buy rejected because its cost exceeds the cash
C7_BuyBeyondCash ==
    /\ calls # <<>>
    /\ LastCall.op = "add_position"
    /\ RGt(RMul(LastCall.amount, LastCall.price), LastCall.before.cash_balance)
    /\ RGe(portfolio.cash_balance, Zero)

\* C8: add_position whose cost exceeds cash_balance, and remove_position for
\* an absent symbol or for more than is held, return failure and leave
\* cash_balance and every position unchanged.
C8_RejectedCallMutatesNothing ==
    (calls # <<>> /\ LastCall.op \in {"add_position", "remove_position"}) =>
        LET before == LastCall.before
            symbol == LastCall.symbol
        IN  /\ (/\ LastCall.op = "add_position"
                /\ RGt(RMul(LastCall.amount, LastCall.price), before.cash_balance))
                  => LastCall.ret = "False"
            /\ (/\ LastCall.op = "remove_position"
                /\ \/ symbol \notin DOMAIN before.positions
                   \/ RLt(before.positions[symbol].amount, LastCall.amount))
                  => LastCall.ret = "False"
            /\ LastCall.ret = "False" => portfolio = before

\* a sale of more than is held, at a price that would have credited cash
C8_SellMoreThanHeld ==
    /\ calls # <<>>
    /\ LastCall.op = "remove_position"
    /\ LastCall.symbol \in DOMAIN LastCall.before.positions
    /\ RLt(LastCall.before.positions[LastCall.symbol].amount, LastCall.amount)
    /\ LastCall.ret = "False"
    /\ portfolio = LastCall.before

\* 1 unit bought at 100 and then 1 unit at 200, of a symbol not held before
BoughtAt100Then200 ==
    /\ Len(calls) = 2
    /\ calls[1].op = "add_position" /\ calls[1].ret = "True"
    /\ calls[2].op = "add_position" /\ calls[2].ret = "True"
    /\ calls[1].symbol = calls[2].symbol
    /\ calls[1].symbol \notin DOMAIN calls[1].before.positions
    /\ calls[1].amount = One /\ calls[1].price = Whole(100)
    /\ calls[2].amount = One /\ calls[2].price = Whole(200)

\* C9: a successful add_position on a symbol held with (old_amount, old_avg)
\* yields amount old_amount + amount and average_entry_price with
\* average_entry_price * (old_amount + amount) = old_amount * old_avg +
\* amount * price; on a symbol not held it yields (amount, price); 1 unit at
\* 100 then 1 unit at 200 yields amount 2 at 150.
C9_CostWeightedMean ==
    /\ (calls # <<>> /\ LastCall.op = "add_position" /\ LastCall.ret = "True") =>
          LET symbol == LastCall.symbol
              now == portfolio.positions[symbol]
              old == LastCall.before.positions[symbol]
          IN  IF symbol \in DOMAIN LastCall.before.positions
              THEN /\ now.amount = RAdd(old.amount, LastCall.amount)
                   /\ RMul(now.average_entry_price, RAdd(old.amount, LastCall.amount))
                         = RAdd(RMul(old.amount, old.average_entry_price),
                                RMul(LastCall.amount, LastCall.price))
              ELSE now = [amount |-> LastCall.amount,
                          average_entry_price |-> LastCall.price]
    /\ BoughtAt100Then200 =>
          portfolio.positions[LastCall.symbol] =
              [amount |-> Whole(2), average_entry_price |-> Whole(150)]

\* the position after 1 unit at 100 and 1 unit at 200
C9_TwoUnitsAt150 ==
    /\ BoughtAt100Then200
    /\ portfolio.positions[LastCall.symbol].amount = Whole(2)
    /\ portfolio.positions[LastCall.symbol].average_entry_price = Whole(150)

\* a successful add_position(symbol, a, p) followed immediately by a
\* successful remove_position(symbol, a, p)
RoundTrip ==
    /\ Len(calls) = 2
    /\ calls[1].op = "add_position" /\ calls[1].ret = "True"
    /\ calls[2].op = "remove_position" /\ calls[2].ret = "True"
    /\ calls[2].symbol = calls[1].symbol
    /\ calls[2].amount = calls[1].amount
    /\ calls[2].price = calls[1].price

\* C10 as stated: the round trip restores cash_balance to its value before
\* the buy and removes the symbol's entry, from any ledger state.
C10_RoundTripRemovesEntry ==
    RoundTrip =>
        /\ portfolio.cash_balance = calls[1].before.cash_balance
        /\ calls[1].symbol \notin DOMAIN portfolio.positions

\* C10: the round trip restores cash_balance to its value before the buy and
\* the amount held to its value before the buy: the symbol has no entry
\* afterwards when none, or less than 1e-8, was held before the buy, and an
\* entry with the amount held before the buy otherwise.
C10_RoundTripRestoresHolding ==
    RoundTrip =>
        LET symbol == calls[1].symbol
            before == calls[1].before
        IN  /\ portfolio.cash_balance = before.cash_balance
            /\ IF symbol \in DOMAIN before.positions
                  /\ ~LtDust(before.positions[symbol].amount)
               THEN /\ symbol \in DOMAIN portfolio.positions
                    /\ portfolio.positions[symbol].amount
                          = before.positions[symbol].amount
               ELSE symbol \notin DOMAIN portfolio.positions

\* a round trip of a positive amount on a symbol already held
C10_RoundTripOnHeldSymbol ==
    /\ RoundTrip
    /\ RGt(calls[1].amount, Zero)
    /\ calls[1].symbol \in DOMAIN calls[1].before.positions
    /\ calls[1].symbol \in DOMAIN portfolio.positions

\* C11: for a guardian with no cooldown running and a BUY proposal, evaluate
\* returns BUY with amount (max_position_pct * portfolio_value / price) *
\* size_modifier iff the trade value is <= max_position_pct * portfolio_value
\* and open exposure + trade value is <= max_exposure_pct * portfolio_value;
\* otherwise HOLD with amount 0, the reason naming the position-size limit
\* whenever that check fails and the exposure limit only when it passes.
C11_BuyIffBothLimitsHold ==
    (/\ calls # <<>>
     /\ LastCall.op = "evaluate"
     /\ LastCall.signal = "BUY"
     /\ LastCall.before.cooldown_cycles_remaining = 0) =>
        LET value == LastCall.current_portfolio_value
            amount == RMul(RDiv(RMul(risk.max_position_pct, value),
                                LastCall.current_price),
                           LastCall.before.size_modifier)
            trade == RMul(amount, LastCall.current_price)
            size_ok == RLe(trade, RMul(risk.max_position_pct, value))
            exposure_ok == RLe(RAdd(LastCall.total_open_value, trade),
                               RMul(risk.max_exposure_pct, value))
            decision == guardian.last_decision
        IN  IF size_ok /\ exposure_ok
            THEN decision.signal = "BUY" /\ decision.amount = amount
            ELSE /\ decision.signal = "HOLD"
                 /\ decision.amount = Zero
                 /\ decision.reason =
                       IF ~size_ok THEN "Risk Rejected: Max Position Size limit"
                       ELSE "Risk Rejected: Max Exposure limit"

\* portfolio value 10000, open exposure 7000, a trade worth 2000 within the
\* position limit: rejected on exposure (9000 > 8000)
C11_ExposureRejected ==
    /\ calls # <<>>
    /\ LastCall.op = "evaluate"
    /\ LastCall.signal = "BUY"
    /\ LastCall.before.cooldown_cycles_remaining = 0
    /\ LastCall.before.size_modifier = One
    /\ LastCall.current_portfolio_value = Whole(10000)
    /\ LastCall.total_open_value = Whole(7000)
    /\ guardian.last_decision.signal = "HOLD"
    /\ guardian.last_decision.reason = "Risk Rejected: Max Exposure limit"

\* C12: in every state the cycles reach, the guardian's size_modifier is 0.5
\* if current_streak <= -3, 0.75 if -3 < current_streak <= -1, 1.25 if
\* current_streak >= 3 and 1.0 otherwise, a cooldown running or not.
C12_SizeModifierFollowsStreak ==
    LET s == guardian.memory.current_streak
    IN  guardian.size_modifier =
            IF s <= -3 THEN Num(1, 2)
            ELSE IF s <= -1 THEN Num(3, 4)
            ELSE IF s >= 3 THEN Num(5, 4)
            ELSE One

\* a cycle blocked by a cooldown part-way through, the sizing at 0.5
C12_HalvedDuringCooldown ==
    /\ guardian.cooldown_cycles_remaining \in 1..4
    /\ guardian.memory.current_streak <= -3
    /\ guardian.size_modifier = Num(1, 2)

(***************************************************************************)
(* Direct calls of the analyst: update_memory and analyze, with any Scout  *)
(* signal and history of the input sets.                                   *)
(***************************************************************************)
AnalystAnalyze(scout_signal, closes) ==
    /\ analyst' = analyze(analyst, strategy, scout_signal, closes)
    /\ calls' = <<[op |-> "analyze", scout_signal |-> scout_signal,
                   closes |-> closes,
                   sma_signal |-> generate_signal(strategy, closes),
                   before |-> analyst]>>
    /\ UNCHANGED <<portfolio, risk, strategy, scout, guardian, trade_history,
                   ncalls, evals, in_flight, overlapped>>

\* the histories of a direct analyze call: the shortest ones on which both
\* long-window means are defined, and the ones one close shorter
AnalyzeHistories ==
    [1..(InitLongWindow + 1) -> HistCloses] \cup [1..InitLongWindow -> HistCloses]

NextAnalyst ==
    \/ \E realized_pnl \in Pnls : AnalystUpdateMemory(realized_pnl)
    \/ \E scout_signal \in Signals, closes \in AnalyzeHistories :
          AnalystAnalyze(scout_signal, closes)

SpecAnalyst == InitAgent /\ [][NextAnalyst]_vars

\* C13: requires_scout_alignment starts FALSE; an update_memory call leaves
\* it TRUE if the resulting current_streak is <= -2, FALSE if it is >= 2, and
\* as it was before the call for the streaks -1, 0 and 1; analyze leaves it
\* as it was.
C13_AlignmentIsSticky ==
    /\ analyst.memory.total_trades = 0 => ~analyst.requires_scout_alignment
    /\ [][analyst'.requires_scout_alignment =
             IF analyst'.memory.total_trades = analyst.memory.total_trades
             THEN analyst.requires_scout_alignment
             ELSE IF analyst'.memory.current_streak <= -2 THEN TRUE
             ELSE IF analyst'.memory.current_streak >= 2 THEN FALSE
             ELSE analyst.requires_scout_alignment]_vars

\* alignment still required after the win that follows two losses
C13_AlignmentKeptAfterWin ==
    /\ calls # <<>>
    /\ LastCall.op = "update_memory"
    /\ LastCall.before.requires_scout_alignment
    /\ LastCall.before.memory.current_streak = -2
    /\ analyst.memory.current_streak = 1
    /\ analyst.requires_scout_alignment

\* C20: analyze returns HOLD when the strategy's signal is HOLD; the
\* strategy's signal when it is not HOLD and alignment is not required,
\* whatever the Scout's signal; with alignment required, the strategy's
\* signal iff it equals the Scout's signal and HOLD otherwise.
C20_AnalyzeFollowsStrategy ==
    (calls # <<>> /\ LastCall.op = "analyze") =>
        analyst.last_decision.signal =
            IF LastCall.sma_signal = "HOLD" THEN "HOLD"
            ELSE IF ~LastCall.before.requires_scout_alignment
            THEN LastCall.sma_signal
            ELSE IF LastCall.sma_signal = LastCall.scout_signal
            THEN LastCall.sma_signal
            ELSE "HOLD"

\* alignment required: a strategy BUY downgraded to HOLD against a Scout SELL
C20_DivergenceDowngraded ==
    /\ calls # <<>>
    /\ LastCall.op = "analyze"
    /\ LastCall.before.requires_scout_alignment
    /\ LastCall.sma_signal = "BUY"
    /\ LastCall.scout_signal = "SELL"
    /\ analyst.last_decision.signal = "HOLD"

\* the symbol of the cycles of SpecDeep
DeepSymbol == "BTCUSDT"

\* the four counters c of a memory after one update_memory(realized_pnl)
Settled(c, realized_pnl) ==
    IF RGt(realized_pnl, Zero)
    THEN <<c[1] + 1, c[2] + 1, c[3], IF c[4] > 0 THEN c[4] + 1 ELSE 1>>
    ELSE IF RLt(realized_pnl, Zero)
    THEN <<c[1] + 1, c[2], c[3] + 1, IF c[4] < 0 THEN c[4] - 1 ELSE -1>>
    ELSE <<c[1] + 1, c[2], c[3], c[4]>>

\* C14: a cycle changes an agent's memory iff the guardian's decision is
\* SELL and a position with amount > 0 is held; then the whole amount is
\* sold, the entry is gone, one SELL entry is appended to the trade log, and
\* each of the three agents gets exactly one update_memory with
\* (price - average_entry_price) * amount sold.  Every other cycle (BUY,
\* REJECTED_FUNDS, HOLD) leaves the three memories unchanged.
C14_MemoryOnlyOnSettledSell ==
    [][LET position == portfolio.positions[DeepSymbol]
           settled == /\ guardian'.last_decision.signal = "SELL"
                      /\ DeepSymbol \in DOMAIN portfolio.positions
                      /\ RGt(position.amount, Zero)
           last == trade_history'[Len(trade_history')]
           pnl == RMul(RSub(last.price, position.average_entry_price),
                       position.amount)
       IN  /\ settled <=> \/ scout'.memory # scout.memory
                          \/ analyst'.memory # analyst.memory
                          \/ guardian'.memory # guardian.memory
           /\ settled =>
                 /\ DeepSymbol \notin DOMAIN portfolio'.positions
                 /\ portfolio'.cash_balance =
                       RAdd(portfolio.cash_balance, RMul(position.amount, last.price))
                 /\ Len(trade_history') = Len(trade_history) + 1
                 /\ SubSeq(trade_history', 1, Len(trade_history)) = trade_history
                 /\ last.action = "SELL"
                 /\ last.symbol = DeepSymbol
                 /\ last.amount = position.amount
                 /\ Counters(scout)' = Settled(Counters(scout), pnl)
                 /\ Counters(analyst)' = Settled(Counters(analyst), pnl)
                 /\ Counters(guardian)' = Settled(Counters(guardian), pnl)]_vars

\* the state after the first settled SELL
C14_FirstSellSettled ==
    /\ trade_history # <<>>
    /\ trade_history[Len(trade_history)].action = "SELL"
    /\ DeepSymbol \notin DOMAIN portfolio.positions
    /\ scout.memory.total_trades = 1
    /\ analyst.memory.total_trades = 1
    /\ guardian.memory.total_trades = 1

\* C15: a cycle whose guardian decision is SELL while no position is held
\* for its symbol leaves cash_balance, the positions, the trade log and the
\* memories of the three agents unchanged.
C15_SellWithoutPositionDropped ==
    [][(/\ guardian'.last_decision.signal = "SELL"
        /\ DeepSymbol \notin DOMAIN portfolio.positions) =>
          /\ portfolio' = portfolio
          /\ trade_history' = trade_history
          /\ scout'.memory = scout.memory
          /\ analyst'.memory = analyst.memory
          /\ guardian'.memory = guardian.memory]_vars

\* a SELL decided in the first cycles, nothing held and nothing logged
C15_SellDecidedNothingHeld ==
    /\ guardian.last_decision.signal = "SELL"
    /\ guardian.status = "Approved SELL"
    /\ portfolio = NewPortfolio(Whole(10000))
    /\ trade_history = <<>>

(***************************************************************************)
(* Direct calls of the settings: update_risk_parameters and                *)
(* update_strategy_parameters with any argument of the input sets, and     *)
(* generate_signal on any history.                                         *)
(***************************************************************************)
\* the percentages of an update_risk_parameters call
RiskPcts == {Num(-1, 10), Zero, Num(1, 2), One, Num(3, 2)}

UpdateRiskParameters(max_position_pct, max_exposure_pct) ==
    /\ risk' = update_risk_parameters(risk, max_position_pct, max_exposure_pct)
    /\ calls' = <<[op |-> "update_risk_parameters",
                   max_position_pct |-> max_position_pct,
                   max_exposure_pct |-> max_exposure_pct, before |-> risk]>>
    /\ UNCHANGED <<portfolio, strategy, scout, analyst, guardian, trade_history,
                   ncalls, evals, in_flight, overlapped>>

UpdateStrategyParameters(short_window, long_window) ==
    /\ strategy' = update_strategy_parameters(strategy, short_window, long_window)
    /\ calls' = <<[op |-> "update_strategy_parameters",
                   short_window |-> short_window, long_window |-> long_window,
                   before |-> strategy]>>
    /\ UNCHANGED <<portfolio, risk, scout, analyst, guardian, trade_history,
                   ncalls, evals, in_flight, overlapped>>

GenerateSignal(closes) ==
    /\ calls' = <<[op |-> "generate_signal", closes |-> closes,
                   ret |-> generate_signal(strategy, closes)]>>
    /\ UNCHANGED <<portfolio, risk, strategy, scout, analyst, guardian,
                   trade_history, ncalls, evals, in_flight, overlapped>>

NextSettings ==
    \/ \E max_position_pct \in RiskPcts, max_exposure_pct \in RiskPcts :
          UpdateRiskParameters(max_position_pct, max_exposure_pct)
    \/ \E short_window \in 0..InitLongWindow, long_window \in 1..(InitLongWindow + 1) :
          UpdateStrategyParameters(short_window, long_window)
    \/ \E closes \in Histories : GenerateSignal(closes)

SpecSettings == InitAgent /\ [][NextSettings]_vars

RECURSIVE WindowTotal(_, _, _)
\* the sum of the window closes that end at sample last
WindowTotal(closes, last, window) ==
    IF window = 0 THEN 0
    ELSE closes[last] + WindowTotal(closes, last - 1, window - 1)

\* the crossover rule on window means, compared as cross-multiplied totals
Crossover(closes, short_window, long_window) ==
    LET len == Len(closes)
        short_previous == WindowTotal(closes, len - 1, short_window) * long_window
        long_previous == WindowTotal(closes, len - 1, long_window) * short_window
        short_latest == WindowTotal(closes, len, short_window) * long_window
        long_latest == WindowTotal(closes, len, long_window) * short_window
    IN  IF len <= long_window THEN "HOLD"
        ELSE IF short_previous <= long_previous /\ short_latest > long_latest
        THEN "BUY"
        ELSE IF short_previous >= long_previous /\ short_latest < long_latest
        THEN "SELL"
        ELSE "HOLD"

\* C16: with 0 < short_window < long_window, generate_signal returns HOLD on
\* a series of at most long_window closes (shorter, or one of its two latest
\* long means undefined); otherwise BUY iff the short mean is <= the long
\* mean at the second-to-last sample and > it at the last, SELL iff it is >=
\* the long mean at the second-to-last sample and < it at the last, and HOLD
\* in every other case.
C16_SignalIsCrossover ==
    (/\ calls # <<>>
     /\ LastCall.op = "generate_signal"
     /\ 0 < strategy.short_window
     /\ strategy.short_window < strategy.long_window) =>
        LastCall.ret =
            Crossover(LastCall.closes, strategy.short_window, strategy.long_window)

\* BUY on a series whose means are equal at the second-to-last sample
C16_BuyFromEqualMeans ==
    /\ calls # <<>>
    /\ LastCall.op = "generate_signal"
    /\ strategy = NewStrategy(1, 2)
    /\ LastCall.closes = <<400, 400, 405>>
    /\ LastCall.ret = "BUY"

\* C17: update_risk_parameters replaces each percentage that is in (0, 1]
\* and leaves each one that is not as it was, whatever the other argument
\* is; both stay in (0, 1] after any sequence of updates.
C17_PercentagesValidatedApart ==
    /\ ValidPct(risk.max_position_pct)
    /\ ValidPct(risk.max_exposure_pct)
    /\ (calls # <<>> /\ LastCall.op = "update_risk_parameters") =>
          /\ risk.max_position_pct =
                IF RGt(LastCall.max_position_pct, Zero)
                   /\ RLe(LastCall.max_position_pct, One)
                THEN LastCall.max_position_pct
                ELSE LastCall.before.max_position_pct
          /\ risk.max_exposure_pct =
                IF RGt(LastCall.max_exposure_pct, Zero)
                   /\ RLe(LastCall.max_exposure_pct, One)
                THEN LastCall.max_exposure_pct
                ELSE LastCall.before.max_exposure_pct

\* a call with a valid position percentage and an invalid exposure one
C17_OneAppliedOneIgnored ==
    /\ calls # <<>>
    /\ LastCall.op = "update_risk_parameters"
    /\ LastCall.max_position_pct = Num(1, 2)
    /\ LastCall.max_exposure_pct = Num(3, 2)
    /\ LastCall.before = NewRisk(Num(2, 10), Num(8, 10))
    /\ risk = NewRisk(Num(1, 2), Num(8, 10))

\* C18: 0 < short_window < long_window holds after any sequence of
\* update_strategy_parameters calls; a call with short_window <= 0 or
\* short_window >= long_window leaves both windows as they were.
C18_WindowsStayOrdered ==
    /\ 0 < strategy.short_window
    /\ strategy.short_window < strategy.long_window
    /\ (calls # <<>> /\ LastCall.op = "update_strategy_parameters") =>
          strategy =
              IF LastCall.short_window <= 0
                 \/ LastCall.short_window >= LastCall.long_window
              THEN LastCall.before
              ELSE [short_window |-> LastCall.short_window,
                    long_window |-> LastCall.long_window]

\* a call rejected for short_window = long_window, its long_window being new
C18_EqualWindowsRejected ==
    /\ calls # <<>>
    /\ LastCall.op = "update_strategy_parameters"
    /\ LastCall.short_window = LastCall.long_window
    /\ LastCall.long_window # LastCall.before.long_window
    /\ strategy = LastCall.before

(***************************************************************************)
(* execute_cycle invocations on one symbol that overlap: an invocation     *)
(* runs lines 28-43 (scan, analyze, the portfolio snapshot, evaluate) in   *)
(* one step and lines 46-70 (the ledger call, the memory updates, the log) *)
(* in a later one; at most two are in flight.  An invocation that finishes *)
(* before the next begins is a cycle run to completion.                    *)
(***************************************************************************)
BeginCycle(symbol, current_price) ==
    /\ Len(in_flight) < 2
    /\ Len(trade_history) + Len(in_flight) < MaxOverlapTrades
    /\ \E decided \in {Decide(closes) : closes \in Histories} :
       \E portfolio_value \in
             {get_portfolio_value(portfolio, [s \in {symbol} |-> current_price])} :
       \E guardian1 \in
             {evaluate(guardian, risk, decided.analyst.last_decision.signal,
                       portfolio_value,
                       TotalOpenValue(portfolio, symbol, current_price), current_price)} :
          /\ scout' = decided.scout
          /\ analyst' = decided.analyst
          /\ guardian' = guardian1
          /\ in_flight' = Append(in_flight,
                                 [symbol |-> symbol, current_price |-> current_price,
                                  guardian_decision |-> guardian1.last_decision])
    /\ overlapped' = (overlapped \/ in_flight # <<>>)
    /\ evals' = EvalsAfterEvaluate(evals)
    /\ UNCHANGED <<portfolio, risk, strategy, trade_history, calls, ncalls>>

FinishCycle(i) ==
    /\ Execute(in_flight[i].symbol, in_flight[i].current_price,
               in_flight[i].guardian_decision, scout, analyst, guardian)
    /\ in_flight' = SubSeq(in_flight, 1, i - 1) \o SubSeq(in_flight, i + 1, Len(in_flight))
    /\ evals' = IF guardian'.memory.total_trades = guardian.memory.total_trades
                THEN evals
                ELSE EvalsAfterUpdate(guardian, guardian')
    /\ UNCHANGED <<risk, strategy, calls, ncalls, overlapped>>

NextOverlap ==
    \/ \E current_price \in CyclePrices : BeginCycle("BTCUSDT", current_price)
    \/ \E i \in 1..Len(in_flight) : FinishCycle(i)

SpecOverlap == InitAgent /\ [][NextOverlap]_vars

\* the latest entry of the trade log
LastTrade == trade_history[Len(trade_history)]

\* the ledger as the latest logged BUY left it is within the exposure limit
\* at that cycle's price
ExposureWithinLimit ==
    (trade_history # <<>> /\ LastTrade.action = "BUY") =>
        RLe(TotalOpenValue(portfolio, LastTrade.symbol, LastTrade.price),
            RMul(risk.max_exposure_pct,
                 get_portfolio_value(portfolio,
                                     [s \in {LastTrade.symbol} |-> LastTrade.price])))

\* C19: while the cycles of a symbol run one at a time to completion, no BUY
\* leaves the open exposure above max_exposure_pct * portfolio value; two
\* invocations that overlap between the guardian's evaluation and the ledger
\* mutation reach a state where it is above (a state no serial run reaches).
C19_SerialCyclesKeepExposure == ~overlapped => ExposureWithinLimit

\* two BUYs approved against the same snapshot, both executed: the open
\* exposure is above the limit
C19_OverlapExceedsExposure ==
    /\ overlapped
    /\ in_flight = <<>>
    /\ ~ExposureWithinLimit

\* C21: in every reachable state the Scout's volatility_threshold is 0.02 if
\* its current_streak is <= -3 and 0.05 otherwise: the loss that brings the
\* streak to -3 tightens it, the first win afterwards resets it.
C21_ThresholdFollowsStreak ==
    scout.volatility_threshold =
        IF scout.memory.current_streak <= -3 THEN Num(2, 100) ELSE Num(5, 100)

\* the win that follows three losses: the streak is 1, the filter is reset
C21_ResetByFirstWin ==
    /\ calls # <<>>
    /\ LastCall.op = "update_memory"
    /\ LastCall.agent = "scout"
    /\ LastCall.before.memory.current_streak = -3
    /\ LastCall.before.volatility_threshold = Num(2, 100)
    /\ scout.memory.current_streak = 1
    /\ scout.volatility_threshold = Num(5, 100)

\* the labels each agent's rules give for a streak
ScoutLabels(streak) ==
    IF streak <= -3 THEN <<"Tightened Volatility Filter (Loss Streak)">> ELSE <<>>

AnalystLabels(streak) ==
    IF streak <= -2 THEN <<"Requiring Scout Alignment (Loss Streak)">>
    ELSE IF streak >= 2 THEN <<"Relaxed Alignment (Win Streak)">>
    ELSE <<>>

GuardianLabels(streak) ==
    IF streak <= -3 THEN <<"Active Cooldown", "Reduced Sizing (-50%)">>
    ELSE IF streak <= -1 THEN <<"Cautious Sizing (-25%)">>
    ELSE IF streak >= 3 THEN <<"Aggressive Sizing (+25%)">>
    ELSE <<>>

NoDuplicate(labels) ==
    \A i, j \in 1..Len(labels) : labels[i] = labels[j] => i = j

\* C22: after any sequence of update_memory calls each agent's adaptations
\* list is the label list its rules give for the current streak alone,
\* whatever the earlier streaks were: no label twice, and no label when the
\* streak triggers no rule.
C22_LabelsFollowStreakAlone ==
    /\ scout.memory.adaptations = ScoutLabels(scout.memory.current_streak)
    /\ analyst.memory.adaptations = AnalystLabels(analyst.memory.current_streak)
    /\ guardian.memory.adaptations = GuardianLabels(guardian.memory.current_streak)
    /\ \A memory \in {scout.memory, analyst.memory, guardian.memory} :
          NoDuplicate(memory.adaptations)

\* a fourth loss in a row on the guardian: the two labels of the third are
\* in place and are not added again
C22_LabelsNotRepeated ==
    /\ calls # <<>>
    /\ LastCall.op = "update_memory"
    /\ LastCall.agent = "guardian"
    /\ LastCall.before.memory.current_streak = -3
    /\ Len(LastCall.before.memory.adaptations) = 2
    /\ guardian.memory.current_streak = -4
    /\ Len(guardian.memory.adaptations) = 2

\* C23: in every state the cycles reach, the memories of the Scout, the
\* Analyst and the Guardian agree: equal total_trades, equal wins, equal
\* losses and equal current_streak.
C23_MemoriesAgree ==
    /\ Counters(scout) = Counters(analyst)
    /\ Counters(analyst) = Counters(guardian)

\* two sales settled at a loss: every agent counts two trades, two losses
\* and a streak of -2
C23_TwoLossesOnEveryAgent ==
    /\ Counters(scout) = <<2, 0, 2, -2>>
    /\ Counters(analyst) = <<2, 0, 2, -2>>
    /\ Counters(guardian) = <<2, 0, 2, -2>>

(***************************************************************************)
(* Cycles over every symbol of an engine whose RiskEngine was constructed  *)
(* with other limits of (0, 1] than app.py's.                              *)
(***************************************************************************)
\* RiskEngine(max_position_pct, max_exposure_pct): the limits of the model
PositionPcts == {Num(2, 10), One}

ExposurePcts == {Num(8, 10), One}

InitLimits ==
    /\ portfolio \in {NewPortfolio(b) : b \in InitialBalances}
    /\ risk \in {NewRisk(p, e) : p \in PositionPcts, e \in ExposurePcts}
    /\ strategy = NewStrategy(InitShortWindow, InitLongWindow)
    /\ scout = NewScout
    /\ analyst = NewAnalyst
    /\ guardian = NewGuardian
    /\ trade_history = <<>>
    /\ calls = <<>>
    /\ ncalls = 0
    /\ evals = -1
    /\ in_flight = <<>>
    /\ overlapped = FALSE

SpecLimits == InitLimits /\ [][Next]_vars

\* no cycle has logged a purchase rejected for lack of funds
NoRejectedFunds ==
    \A i \in 1..Len(trade_history) : trade_history[i].action # "REJECTED_FUNDS"

\* C24: with risk limits in (0, 1], positive prices and a cash balance >= 0,
\* no cycle ever appends a REJECTED_FUNDS entry: every BUY the guardian
\* approves costs at most the current cash_balance, so add_position succeeds
\* (the purchase is made and logged as a BUY).
C24_ApprovedBuyAlwaysSucceeds ==
    /\ NoRejectedFunds
    /\ [][guardian'.last_decision.signal = "BUY" =>
             LET last == trade_history'[Len(trade_history')]
             IN  /\ Len(trade_history') = Len(trade_history) + 1
                 /\ last.action = "BUY"
                 /\ last.amount = guardian'.last_decision.amount
                 /\ RLe(last.value, portfolio.cash_balance)
                 /\ portfolio'.cash_balance =
                       RSub(portfolio.cash_balance, last.value)]_vars

\* the portfolio value at the price of the latest logged trade
ValueAtLastTrade ==
    get_portfolio_value(portfolio, [s \in {LastTrade.symbol} |-> LastTrade.price])

\* C25: right after a cycle that executes a BUY, the total open exposure at
\* that cycle's price is <= max_exposure_pct * portfolio value at that
\* cycle's price, and the value of the lot just bought is <=
\* max_position_pct * portfolio value.
C25_BuyLeavesBothLimitsKept ==
    (trade_history # <<>> /\ LastTrade.action = "BUY") =>
        /\ RLe(TotalOpenValue(portfolio, LastTrade.symbol, LastTrade.price),
               RMul(risk.max_exposure_pct, ValueAtLastTrade))
        /\ RLe(RMul(LastTrade.amount, LastTrade.price),
               RMul(risk.max_position_pct, ValueAtLastTrade))

\* a purchase on top of an open position that takes the exposure to the
\* limit exactly
C25_BoughtUpToExposureLimit ==
    /\ Len(trade_history) >= 2
    /\ LastTrade.action = "BUY"
    /\ RGt(LastTrade.amount, Zero)
    /\ RGt(TotalOpenValue(portfolio, LastTrade.symbol, LastTrade.price),
           LastTrade.value)
    /\ TotalOpenValue(portfolio, LastTrade.symbol, LastTrade.price)
          = RMul(risk.max_exposure_pct, ValueAtLastTrade)

\* the guardian's answer to a BUY over the position-size ceiling
SizeRejected ==
    [signal |-> "HOLD", amount |-> Zero,
     reason |-> "Risk Rejected: Max Position Size limit"]

====
